---- MODULE Spec2Model ----
(***************************************************************************)
(* PDF-chat-RAG: the ingestion worker (BullMQ processor of queue           *)
(* "fileupload"), the embedding helper, the two query endpoints (/chat and *)
(* /chat/stream) against a Qdrant collection "pdf-with-chat", the upload   *)
(* endpoint and the cleanup of the uploads directory.                      *)
(*                                                                         *)
(* SpecIngest     concurrent deliveries of ingestion jobs sharing the index*)
(* SpecQuery      chat requests over an index left behind by ingestion     *)
(* SpecCancel     SpecQuery, with callers that close their connection      *)
(* SpecEquiv      a query asked again, of either endpoint, with a          *)
(*                deterministic Generation Provider stub                   *)
(* SpecRepeat     a query asked again of the same endpoint, with the stub  *)
(* SpecChunker    textSplitter.splitText applied to texts, on its own      *)
(* SpecRoundTrip  ingestion, then queries over what it left in the index   *)
(* SpecRetention  uploads, the worker up to readFile, the cleanups         *)
(***************************************************************************)
EXTENDS Integers, Sequences, FiniteSets, TLC

\* ------------------------------------------------------------------ bounds
NumJobs == 2        \* job deliveries in flight (the worker allows concurrency: 10)
NumDocs == 2        \* distinct uploaded files (data.path values)
MaxChunks == 2      \* chunks a document's text splits into, at most
NumReqs == 1        \* chat requests in flight
MaxQueryLen == 1    \* characters of req.body.query, at most
MaxFrags == 2       \* chunks the provider's streaming completion yields, at most
MaxAttempts == 3    \* times a caller submits the same query, at most
MaxParas == 3       \* paragraphs of a text handed to the splitter, at most
MaxClock == 4       \* half hours the server's clock runs for

Jobs == 1..NumJobs
Docs == 1..NumDocs
Reqs == 1..NumReqs

RECURSIVE SeqsUpTo(_, _)
SeqsUpTo(S, n) ==
    IF n = 0 THEN {<<>>}
    ELSE LET shorter == SeqsUpTo(S, n - 1)
         IN shorter \cup {Append(s, x) : s \in {t \in shorter : Len(t) = n - 1}, x \in S}

\* texts are sequences of characters. The k-th chunk of the file at path d: neighbouring
\* chunks differ, files at paths of equal parity have equal texts, others differ.
ChunkText(d, k) == IF (d + k) % 2 = 0 THEN <<"a">> ELSE <<"b">>

\* the chunk lists the text of the file at path d may split into (none for an empty text)
ChunkLists(d) == {[k \in 1..n |-> ChunkText(d, k)] : n \in 0..MaxChunks}

Undefined == "undefined"

\* ------------------------------------------------------------------ state
VARIABLES
    \* --- ingestion worker (one entry per job delivery)
    files,               \* path -> chunk list its extracted text splits into
    jobData,             \* job -> data.path
    pc,                  \* job -> position in the processor
    chunks,              \* job -> const chunks
    documentEmbeddings,  \* job -> const documentEmbeddings
    outcome,             \* job -> what the processor returned or threw
    \* --- Qdrant
    collection,          \* the collection "pdf-with-chat": exists, size, points
    \* --- query endpoints (one entry per request)
    endpoint,            \* request -> "chat" | "stream"
    query,               \* request -> req.body.query
    rpc,                 \* request -> position in the handler
    res,                 \* request -> the response object
    queryEmbedding,      \* request -> const queryEmbedding
    searchResults,       \* request -> const searchResults
    messages,            \* request -> messages passed to groq.chat.completions.create
    \* --- history (observations, never read by the program)
    createdCount,        \* successful createCollection calls
    upsertCalls,         \* job -> upsert requests issued
    failedAt,            \* job -> the stage whose exception ended the job
    lookup,              \* job -> what getCollection answered: "found", "absent", "error"
    written,             \* every <<point id, path, chunk_index>> ever upserted
    calls,               \* request -> calls issued to each provider; found: the number of
                         \*            results the search returned (-1 before it returns)
    emitted,             \* request -> delta contents the provider stream has yielded
    genFailure,          \* request -> where the Generation Provider failed
    \* --- environment: the providers, the callers' history, a text for the splitter
    stub,                \* "none": the providers answer as they please; otherwise the
                         \*         deterministic Generation Provider stub in use
    attempts,            \* request -> times the caller has submitted its query so far
    prior,               \* request -> the first successful response of each endpoint in
                         \*            the caller's earlier submissions, and whether one of
                         \*            them failed at the Embedding Provider
    pdfText,             \* a text handed to textSplitter.splitText: its paragraphs' lengths
    splitOut,            \* the chunks splitText returned for it (NotSplit before the call)
    \* --- environment: the uploads directory and the clock
    onDisk,              \* paths of the files present in uploads/
    mtime,               \* path -> when the file was written (stats.mtimeMs), in half hours
    now,                 \* Date.now(), in half hours since the server started
    \* --- environment: the callers of the endpoints
    closedAt             \* request -> -1 while the caller's connection is open, else the
                         \*            number of chunks pulled from the provider's stream
                         \*            when the caller closed it

ingestVars == <<files, jobData, pc, chunks, documentEmbeddings, outcome,
                createdCount, upsertCalls, failedAt, lookup, written>>
queryVars == <<endpoint, query, rpc, res, queryEmbedding, searchResults, messages,
               calls, emitted, genFailure>>
callerVars == <<attempts, prior, closedAt>>
chunkerVars == <<pdfText, splitOut>>
diskVars == <<onDisk, mtime, now>>
envVars == <<stub, callerVars, chunkerVars, diskVars>>
vars == <<ingestVars, collection, queryVars, envVars>>

\* ------------------------------------------------------------------ the text splitter
\* new CharacterTextSplitter({chunkSize: 1000, chunkOverlap: 100}): no separator is given,
\* so the splitter keeps the library's default separator, a blank line ("\n\n"), and
\* keepSeparator false. It cuts the text at the separators only and merges the pieces
\* back into chunks; a piece longer than chunkSize is never cut.
ChunkSize == 1000
ChunkOverlap == 100
SeparatorLen == 2

\* A text is given by the lengths of its paragraphs, in order: non-empty runs of
\* characters free of blank lines and of leading or trailing white space, joined by "\n\n".
ParaLens == {50, 450, 950, 3000}
Texts == SeqsUpTo(ParaLens, MaxParas)

RECURSIVE Total(_)
Total(lens) == IF lens = <<>> THEN 0 ELSE Head(lens) + Total(Tail(lens))

\* text.length
TextLen(t) == IF t = <<>> THEN 0 ELSE Total(t) + SeparatorLen * (Len(t) - 1)

\* splitOnSeparator: text.split("\n\n").filter(s => s !== ""), each piece with the
\* offset at which it starts in the text
splitOnSeparator(t) ==
    [k \in 1..Len(t) |->
        [start |-> Total(SubSeq(t, 1, k - 1)) + SeparatorLen * (k - 1), len |-> t[k]]]

PieceLens(cur) == [k \in 1..Len(cur) |-> cur[k].len]

\* joinDocs: currentDoc.join(separator).trim(), as the stretch of the text it covers
joinDocs(cur) ==
    [start |-> cur[1].start,
     len |-> cur[Len(cur)].start + cur[Len(cur)].len - cur[1].start]

\* total + _len + currentDoc.length * separator.length > this.chunkSize
Overfull(cur, len) == Total(PieceLens(cur)) + len + Len(cur) * SeparatorLen > ChunkSize

\* while (total > chunkOverlap || (total + _len + ... > chunkSize && total > 0))
\*     { total -= currentDoc[0].length; currentDoc.shift() }
RECURSIVE Shift(_, _)
Shift(cur, len) ==
    IF Total(PieceLens(cur)) > ChunkOverlap
          \/ (Overfull(cur, len) /\ Total(PieceLens(cur)) > 0)
    THEN Shift(Tail(cur), len)
    ELSE cur

\* mergeSplits: for (const d of splits) {...}, then the last joinDocs
RECURSIVE mergeSplits(_, _, _, _)
mergeSplits(splits, i, cur, docs) ==
    IF i > Len(splits)
    THEN IF cur = <<>> THEN docs ELSE Append(docs, joinDocs(cur))
    ELSE LET d == splits[i]
         IN IF Overfull(cur, d.len) /\ cur # <<>>
            THEN mergeSplits(splits, i + 1, Append(Shift(cur, d.len), d),
                             Append(docs, joinDocs(cur)))
            ELSE mergeSplits(splits, i + 1, Append(cur, d), docs)

\* textSplitter.splitText(text)
splitText(t) == mergeSplits(splitOnSeparator(t), 1, <<>>, <<>>)

NotSplit == <<[start |-> -1, len |-> -1]>>

\* const chunks = await textSplitter.splitText(pdfData.text), on its own
SplitTextOnly ==
    /\ splitOut = NotSplit
    /\ splitOut' = splitText(pdfText)
    /\ UNCHANGED <<pdfText, stub, callerVars, diskVars>>

\* ------------------------------------------------------------------ embedding-model.js
\* ai.models.embedContent: one vector per input text, same order; the vector is a
\* function of the text alone.
Count(t, c) == Cardinality({k \in 1..Len(t) : t[k] = c})

EmbedText(t) == <<1 + Count(t, "a"), 1 + Count(t, "b")>>

\* embeddingModel({docs}): response.embeddings.map(emb => emb.values)
embeddingModel(docs) == [i \in 1..Len(docs) |-> EmbedText(docs[i])]

\* embeddings[0].length (line 32) throws on an empty result
EmbeddingThrowsOnEmpty(docs) == Len(docs) = 0

\* ------------------------------------------------------------------ Qdrant
NoCollection == [exists |-> FALSE, size |-> 0, points |-> <<>>]

\* id: i + 1 with i the zero-based map index; TLA+ sequences are 1-based, so
\* chunk_index = k - 1 and id = (k - 1) + 1
\* variant: a running counter over everything written so far
PointId_running(i) == i + 1 + Cardinality(written)

PointId(i) == i + 1

\* variant: the payload carries the one-based position of the chunk
Point_oneBased(vec, text, i, path) ==
    [id |-> PointId(i), vector |-> vec,
     payload |-> [text |-> text, chunk_index |-> i + 1, source |-> path]]

\* documentEmbeddings.map((vec, i) => ({id, vector, payload}))
Point(vec, text, i, path) ==
    [id |-> PointId(i), vector |-> vec,
     payload |-> [text |-> text, chunk_index |-> i, source |-> path]]

PointsOf(embs, chs, path) ==
    [k \in 1..Len(embs) |-> Point(embs[k], chs[k], k - 1, path)]

\* qdrant.upsert: insert-or-overwrite by point id
UpsertPoints(stored, pts) ==
    LET ids == {pts[k].id : k \in 1..Len(pts)}
        new(id) == LET k == CHOOSE k \in 1..Len(pts) :
                              /\ pts[k].id = id
                              /\ \A m \in 1..Len(pts) : pts[m].id = id => m <= k
                   IN pts[k]
    IN [id \in (DOMAIN stored) \cup ids |->
            IF id \in ids THEN new(id) ELSE stored[id]]

\* ------------------------------------------------------------------ worker processor
Pending == [status |-> "active", chunks |-> 0, error |-> "none"]
Failed(msg) == [status |-> "failed", chunks |-> 0, error |-> msg]
Completed(n) == [status |-> "completed", chunks |-> n, error |-> "none"]

\* variant: the processor starts the job over instead of rethrowing
Throw_retry(j, msg) ==
    /\ pc' = [pc EXCEPT ![j] = "parse"]
    /\ UNCHANGED <<outcome, failedAt>>

\* catch (error) { ...; throw error } : the job ends failed with that error
Throw(j, msg) ==
    /\ pc' = [pc EXCEPT ![j] = "failed"]
    /\ outcome' = [outcome EXCEPT ![j] = Failed(msg)]
    /\ failedAt' = [failedAt EXCEPT ![j] = pc[j]]

\* the next statement is reached without an exception
Goto(j, stage) ==
    /\ pc' = [pc EXCEPT ![j] = stage]
    /\ UNCHANGED <<outcome, failedAt>>

\* const data = JSON.parse(job.data): /upload/pdf enqueues JSON.stringify({...}), which
\* parses; a payload put on the queue by anything else may not
JsonParse(j) ==
    /\ pc[j] = "parse"
    /\ \/ Goto(j, "readFile")
       \/ Throw(j, "SyntaxError")
    /\ UNCHANGED <<files, jobData, chunks, documentEmbeddings, collection,
                   createdCount, upsertCalls, lookup, written, queryVars, envVars>>

\* const buffer = await readFile(data.path)
ReadFile(j) ==
    /\ pc[j] = "readFile"
    /\ \/ /\ jobData[j] \in onDisk
          /\ Goto(j, "pdf")
       \/ Throw(j, "ENOENT")
    /\ UNCHANGED <<files, jobData, chunks, documentEmbeddings, collection,
                   createdCount, upsertCalls, lookup, written, queryVars, envVars>>

\* const pdfData = await pdf(buffer)
ParsePdf(j) ==
    /\ pc[j] = "pdf"
    /\ \/ Goto(j, "splitText")
       \/ Throw(j, "InvalidPDF")
    /\ UNCHANGED <<files, jobData, chunks, documentEmbeddings, collection,
                   createdCount, upsertCalls, lookup, written, queryVars, envVars>>

\* const chunks = await textSplitter.splitText(pdfData.text)
SplitText(j) ==
    /\ pc[j] = "splitText"
    /\ chunks' = [chunks EXCEPT ![j] = files[jobData[j]]]
    /\ Goto(j, "embed")
    /\ UNCHANGED <<files, jobData, documentEmbeddings, collection,
                   createdCount, upsertCalls, lookup, written, queryVars, envVars>>

\* const documentEmbeddings = await embeddingModel({ docs: chunks })
Embed(j) ==
    /\ pc[j] = "embed"
    /\ \/ /\ ~EmbeddingThrowsOnEmpty(chunks[j])
          /\ documentEmbeddings' = [documentEmbeddings EXCEPT ![j] = embeddingModel(chunks[j])]
          /\ Goto(j, "getCollection")
       \/ /\ Throw(j, "EmbeddingError")
          /\ UNCHANGED documentEmbeddings
    /\ UNCHANGED <<files, jobData, chunks, collection,
                   createdCount, upsertCalls, lookup, written, queryVars, envVars>>

\* try { await qdrant.getCollection(collectionName) } catch (error) { ... }
\* the lookup throws when the collection is absent (404) or when the call itself fails
GetCollection(j) ==
    /\ pc[j] = "getCollection"
    /\ \/ /\ collection.exists
          /\ lookup' = [lookup EXCEPT ![j] = "found"]
          /\ Goto(j, "upsert")
       \/ /\ lookup' = [lookup EXCEPT ![j] = IF collection.exists THEN "error" ELSE "absent"]
          /\ Goto(j, "createCollection")
    /\ UNCHANGED <<files, jobData, chunks, documentEmbeddings, collection,
                   createdCount, upsertCalls, written, queryVars, envVars>>

\* await qdrant.createCollection(collectionName, {vectors: {size, distance}})
\* it runs inside the inner catch block, so whatever it throws reaches the outer catch;
\* Qdrant answers 409 when the collection is already there
CreateCollection(j) ==
    /\ pc[j] = "createCollection"
    /\ \/ /\ ~collection.exists
          /\ collection' = [exists |-> TRUE,
                            size |-> Len(documentEmbeddings[j][1]),
                            points |-> <<>>]
          /\ createdCount' = createdCount + 1
          /\ Goto(j, "upsert")
       \/ /\ collection.exists
          /\ Throw(j, "CollectionAlreadyExists")
          /\ UNCHANGED <<collection, createdCount>>
       \/ /\ Throw(j, "IndexUnavailable")
          /\ UNCHANGED <<collection, createdCount>>
    /\ UNCHANGED <<files, jobData, chunks, documentEmbeddings, upsertCalls, lookup,
                   written, queryVars, envVars>>

\* const points = documentEmbeddings.map(...)
points(j) == PointsOf(documentEmbeddings[j], chunks[j], jobData[j])

\* variant: the upsert is issued without waiting for the embeddings
UpsertStage_early(j) == pc[j] \in {"embed", "upsert"}

\* the statement at which the processor issues qdrant.upsert
UpsertStage(j) == pc[j] = "upsert"

\* await qdrant.upsert(collectionName, { wait: true, points }): the whole batch is
\* applied by the time the call resolves, or the call throws
Upsert(j) ==
    /\ UpsertStage(j)
    /\ upsertCalls' = [upsertCalls EXCEPT ![j] = @ + 1]
    /\ \/ /\ collection.exists
          /\ collection' = [collection EXCEPT !.points = UpsertPoints(@, points(j))]
          /\ written' = written \cup
                {<<points(j)[k].id, points(j)[k].payload.source,
                   points(j)[k].payload.chunk_index>> : k \in 1..Len(points(j))}
          /\ Goto(j, "return")
       \/ /\ Throw(j, "IndexUnavailable")
          /\ UNCHANGED <<collection, written>>
    /\ UNCHANGED <<files, jobData, chunks, documentEmbeddings, createdCount, lookup,
                   queryVars, envVars>>

\* return { success: true, chunks: chunks.length }
Return(j) ==
    /\ pc[j] = "return"
    /\ pc' = [pc EXCEPT ![j] = "completed"]
    /\ outcome' = [outcome EXCEPT ![j] = Completed(Len(chunks[j]))]
    /\ UNCHANGED <<files, jobData, chunks, documentEmbeddings, collection,
                   createdCount, upsertCalls, failedAt, lookup, written, queryVars, envVars>>

\* ------------------------------------------------------------------ Qdrant search
Min(a, b) == IF a < b THEN a ELSE b

RECURSIVE DotUpTo(_, _, _)
DotUpTo(u, v, n) == IF n = 0 THEN 0 ELSE u[n] * v[n] + DotUpTo(u, v, n - 1)

Dot(u, v) == DotUpTo(u, v, Len(u))

\* distance: "Cosine". Every component is non-negative here, so cos^2 orders as cos
\* does; the score is kept as the fraction num/den = cos^2.
Score(p, q) == [num |-> Dot(p, q) * Dot(p, q), den |-> Dot(p, p) * Dot(q, q)]

ScoreLess(s, t) == s.num * t.den < t.num * s.den

\* points ranked before id: a strictly higher score, or the same score and a smaller id
Rank(stored, id, q) ==
    Cardinality({o \in DOMAIN stored :
        \/ ScoreLess(Score(stored[id].vector, q), Score(stored[o].vector, q))
        \/ /\ ~ScoreLess(Score(stored[o].vector, q), Score(stored[id].vector, q))
           /\ o < id})

\* qdrant.search(name, {vector, limit, with_payload: true}) on an existing collection
search(stored, q, limit) ==
    [k \in 1..Min(limit, Cardinality(DOMAIN stored)) |->
        LET id == CHOOSE id \in DOMAIN stored : Rank(stored, id, q) = k - 1
        IN [id |-> id, score |-> Score(stored[id].vector, q), payload |-> stored[id].payload]]

\* limit: 5
SearchLimit == 5

\* ------------------------------------------------------------------ request values
JsUndefined == [type |-> "undefined", chars |-> <<>>]
JsString(t) == [type |-> "string", chars |-> t]
\* a truthy value that is no string, such as {"query": 5}
JsNumber == [type |-> "number", chars |-> <<>>]

QueryChars == {" ", "a"}
Bodies == {JsUndefined, JsNumber} \cup {JsString(t) : t \in SeqsUpTo(QueryChars, MaxQueryLen)}

RECURSIVE TrimStart(_)
TrimStart(t) == IF t # <<>> /\ Head(t) = " " THEN TrimStart(Tail(t)) ELSE t

RECURSIVE TrimEnd(_)
TrimEnd(t) == IF t # <<>> /\ t[Len(t)] = " " THEN TrimEnd(SubSeq(t, 1, Len(t) - 1)) ELSE t

\* String.prototype.trim
trim(t) == TrimEnd(TrimStart(t))

\* !query
Falsy(v) == v.type = "undefined" \/ (v.type = "string" /\ v.chars = <<>>)

\* variant: the check without the trim
QueryRejected_noTrim(v) == Falsy(v)

\* !query || query.trim() === ''
QueryRejected(v) == Falsy(v) \/ (v.type = "string" /\ trim(v.chars) = <<>>)

\* query.trim is not a function
TrimThrows(v) == ~Falsy(v) /\ v.type # "string"

\* ------------------------------------------------------------------ responses
NoBody == [kind |-> "none", error |-> Undefined, details |-> Undefined,
           answer |-> Undefined, sources |-> <<>>]
ErrorBody(error, details) ==
    [kind |-> "error", error |-> error, details |-> details,
     answer |-> Undefined, sources |-> <<>>]
AnswerBody(answer, sources) ==
    [kind |-> "answer", error |-> Undefined, details |-> Undefined,
     answer |-> answer, sources |-> sources]

NewResponse == [statusCode |-> 200, contentType |-> "none", body |-> NoBody,
                events |-> <<>>, ended |-> FALSE]

\* res.status(code).json(body)
Json(rs, code, body) ==
    [rs EXCEPT !.statusCode = code, !.contentType = "application/json",
               !.body = body, !.ended = TRUE]

NoContextAnswer == "I couldn't find any relevant information in the uploaded PDF"
StreamNoContextAnswer == "No relevant context found."
NoResponse == "No response generated"

ContentEvent(text) == [type |-> "content", text |-> text]
DoneEvent(answer) == [type |-> "done", text |-> answer]
ErrorEvent(msg) == [type |-> "error", text |-> msg]

\* res.write(`data: ${JSON.stringify(event)}\n\n`)
Write(rs, event) == [rs EXCEPT !.events = Append(@, event)]

\* res.end()
End(rs) == [rs EXCEPT !.ended = TRUE]

\* ------------------------------------------------------------------ prompt
\* variant: the context lists the chunks from the least similar to the most similar
context_ascending(results) ==
    [k \in 1..Len(results) |->
        [label |-> k, text |-> results[Len(results) + 1 - k].payload.text]]

\* searchResults.map((result, idx) => `[Chunk ${idx + 1}] ${result.payload.text}`)
context(results) ==
    [k \in 1..Len(results) |-> [label |-> k, text |-> results[k].payload.text]]

\* the two endpoints use different instruction preambles around ${context}
systemPrompt(which, results) == [preamble |-> which, context |-> context(results)]

NoMessages == [system |-> [preamble |-> "none", context |-> <<>>], user |-> <<>>]

Take(t, n) == SubSeq(t, 1, Min(n, Len(t)))

\* text.substring(0, 200) + "..."
Preview(t) == Take(t, 200) \o <<".", ".", ".">>

\* searchResults.map((result, idx) => ({chunk_index, text, score, source}))
sources(results) ==
    [k \in 1..Len(results) |->
        [chunk_index |-> k, text |-> Preview(results[k].payload.text),
         score |-> results[k].score, source |-> results[k].payload.source]]

\* what the Generation Provider can put in message.content
Contents == {Undefined, "", "x"}

\* what it can put in a streamed chunk's delta.content: absent (as in the closing chunk;
\* an empty string takes the same path through || '') or a piece of text
Deltas == {Undefined, "x", "y"}

\* A deterministic Generation Provider stub: the deltas of its completion are a function
\* of the messages it is given. "fixed" ignores them, "silent" generates nothing,
\* "prompt" reads the instructions of the system message.
Stubs == {"fixed", "silent", "prompt"}

StubDeltas(kind, m) ==
    CASE kind = "fixed" -> <<"x", "y">>
      [] kind = "silent" -> <<>>
      [] kind = "prompt" -> IF m.system.preamble = "chat" THEN <<"x">> ELSE <<"y">>

RECURSIVE Concat(_)
Concat(ds) == IF ds = <<>> THEN "" ELSE Head(ds) \o Concat(Tail(ds))

\* chatCompletion.choices[0]?.message?.content of a completion with stream: false
GenContents(r) ==
    IF stub = "none" THEN Contents ELSE {Concat(StubDeltas(stub, messages[r]))}

\* delta.content of the chunk the iteration of a stream: true completion yields next
GenDeltas(r) ==
    IF stub = "none"
    THEN IF Len(emitted[r]) < MaxFrags THEN Deltas ELSE {}
    ELSE {StubDeltas(stub, messages[r])[k] :
            k \in {Len(emitted[r]) + 1} \cap DOMAIN StubDeltas(stub, messages[r])}

\* the iteration has no further chunk
GenStreamEnds(r) ==
    IF stub = "none" THEN TRUE ELSE Len(emitted[r]) = Len(StubDeltas(stub, messages[r]))

\* the Generation Provider can fail; the stub never does
GenCanFail == stub = "none"

\* ------------------------------------------------------------------ POST /chat
NoCalls == [embed |-> 0, search |-> 0, gen |-> 0, found |-> -1]

Call(r, provider) == calls' = [calls EXCEPT ![r][provider] = @ + 1]

\* the search returned n results
Found(r, n) == calls' = [calls EXCEPT ![r].found = n]

\* the search returned n results and groq.chat.completions.create is called
FoundAndCall(r, n) == calls' = [calls EXCEPT ![r].found = n, ![r].gen = @ + 1]

\* catch (error) { return res.status(500).json({error, details: error.message}) }
ChatCatch(r, msg) ==
    /\ res' = [res EXCEPT ![r] = Json(@, 500, ErrorBody("Failed to process chat request", msg))]
    /\ rpc' = [rpc EXCEPT ![r] = "done"]

\* const { query } = req.body; validation; then embeddingModel({docs: [query]}) is called
ChatValidate(r) ==
    /\ endpoint[r] = "chat" /\ rpc[r] = "start"
    /\ IF QueryRejected(query[r])
       THEN /\ res' = [res EXCEPT ![r] = Json(@, 400, ErrorBody("Query is required", Undefined))]
            /\ rpc' = [rpc EXCEPT ![r] = "done"]
            /\ UNCHANGED calls
       ELSE IF TrimThrows(query[r])
       THEN /\ ChatCatch(r, "query.trim is not a function")
            /\ UNCHANGED calls
       ELSE /\ Call(r, "embed")
            /\ rpc' = [rpc EXCEPT ![r] = "embedding"]
            /\ UNCHANGED res
    /\ UNCHANGED <<ingestVars, envVars, collection, endpoint, query, queryEmbedding, searchResults,
                   messages, emitted, genFailure>>

\* queryEmbedding arrives (or the call throws); then qdrant.search is called
ChatEmbedded(r) ==
    /\ endpoint[r] = "chat" /\ rpc[r] = "embedding"
    /\ \/ LET qe == embeddingModel(<<query[r].chars>>)
          IN IF Len(qe) = 0
             THEN /\ ChatCatch(r, "Failed to generate query embedding")
                  /\ UNCHANGED <<queryEmbedding, calls>>
             ELSE /\ queryEmbedding' = [queryEmbedding EXCEPT ![r] = qe]
                  /\ Call(r, "search")
                  /\ rpc' = [rpc EXCEPT ![r] = "searching"]
                  /\ UNCHANGED res
       \/ /\ ChatCatch(r, "EmbeddingError")
          /\ UNCHANGED <<queryEmbedding, calls>>
    /\ UNCHANGED <<ingestVars, envVars, collection, endpoint, query, searchResults,
                   messages, emitted, genFailure>>

\* searchResults arrive (or the call throws: no such collection, index unreachable);
\* zero results end the request, otherwise the prompt is built and groq is called
ChatSearched(r) ==
    /\ endpoint[r] = "chat" /\ rpc[r] = "searching"
    /\ \/ /\ collection.exists
          /\ LET results == search(collection.points, queryEmbedding[r][1], SearchLimit)
             IN /\ searchResults' = [searchResults EXCEPT ![r] = results]
                /\ IF Len(results) = 0
                   THEN /\ res' = [res EXCEPT ![r] =
                                      Json(@, 200, AnswerBody(NoContextAnswer, <<>>))]
                        /\ rpc' = [rpc EXCEPT ![r] = "done"]
                        /\ Found(r, 0)
                        /\ UNCHANGED messages
                   ELSE /\ messages' = [messages EXCEPT ![r] =
                                          [system |-> systemPrompt("chat", results),
                                           user |-> query[r].chars]]
                        /\ FoundAndCall(r, Len(results))
                        /\ rpc' = [rpc EXCEPT ![r] = "generating"]
                        /\ UNCHANGED res
       \/ /\ ChatCatch(r, "VectorIndexError")
          /\ UNCHANGED <<searchResults, messages, calls>>
    /\ UNCHANGED <<ingestVars, envVars, collection, endpoint, query, queryEmbedding,
                   emitted, genFailure>>

\* chatCompletion arrives (stream: false), or the call throws
ChatCompleted(r) ==
    /\ endpoint[r] = "chat" /\ rpc[r] = "generating"
    /\ \/ \E content \in GenContents(r) :
             LET answer == IF content \in {Undefined, ""} THEN NoResponse ELSE content
             IN /\ res' = [res EXCEPT ![r] =
                              Json(@, 200, AnswerBody(answer, sources(searchResults[r])))]
                /\ rpc' = [rpc EXCEPT ![r] = "done"]
                /\ UNCHANGED genFailure
       \/ /\ GenCanFail
          /\ ChatCatch(r, "GenerationError")
          /\ genFailure' = [genFailure EXCEPT ![r] = "open"]
    /\ UNCHANGED <<ingestVars, envVars, collection, endpoint, query, queryEmbedding, searchResults,
                   messages, calls, emitted>>

\* ------------------------------------------------------------------ POST /chat/stream
\* variant: the catch block also writes the terminal marker
CatchEvents_withDone(msg) == <<ErrorEvent(msg), DoneEvent(Undefined)>>

\* what the catch block writes before res.end()
CatchEvents(msg) == <<ErrorEvent(msg)>>

RECURSIVE WriteAll(_, _)
WriteAll(rs, events) ==
    IF events = <<>> THEN rs ELSE WriteAll(Write(rs, Head(events)), Tail(events))

\* catch (error) { res.write(`data: ${JSON.stringify({error: error.message})}`); res.end() }
StreamCatch(r, msg) ==
    /\ res' = [res EXCEPT ![r] = End(WriteAll(@, CatchEvents(msg)))]
    /\ rpc' = [rpc EXCEPT ![r] = "done"]

\* validation, the three res.setHeader calls, then embeddingModel({docs: [query]})
StreamValidate(r) ==
    /\ endpoint[r] = "stream" /\ rpc[r] = "start"
    /\ IF QueryRejected(query[r])
       THEN /\ res' = [res EXCEPT ![r] = Json(@, 400, ErrorBody("Query is required", Undefined))]
            /\ rpc' = [rpc EXCEPT ![r] = "done"]
            /\ UNCHANGED calls
       ELSE IF TrimThrows(query[r])
       THEN /\ StreamCatch(r, "query.trim is not a function")
            /\ UNCHANGED calls
       ELSE /\ res' = [res EXCEPT ![r].contentType = "text/event-stream"]
            /\ Call(r, "embed")
            /\ rpc' = [rpc EXCEPT ![r] = "embedding"]
    /\ UNCHANGED <<ingestVars, envVars, collection, endpoint, query, queryEmbedding, searchResults,
                   messages, emitted, genFailure>>

\* queryEmbedding arrives (or the call throws); then qdrant.search is called
StreamEmbedded(r) ==
    /\ endpoint[r] = "stream" /\ rpc[r] = "embedding"
    /\ \/ /\ queryEmbedding' = [queryEmbedding EXCEPT ![r] =
                                   embeddingModel(<<query[r].chars>>)]
          /\ Call(r, "search")
          /\ rpc' = [rpc EXCEPT ![r] = "searching"]
          /\ UNCHANGED res
       \/ /\ StreamCatch(r, "EmbeddingError")
          /\ UNCHANGED <<queryEmbedding, calls>>
    /\ UNCHANGED <<ingestVars, envVars, collection, endpoint, query, searchResults,
                   messages, emitted, genFailure>>

\* searchResults arrive (or the call throws); zero results end the stream with one
\* {done: true, answer} event, otherwise groq is called with stream: true
StreamSearched(r) ==
    /\ endpoint[r] = "stream" /\ rpc[r] = "searching"
    /\ \/ /\ collection.exists
          /\ LET results == search(collection.points, queryEmbedding[r][1], SearchLimit)
             IN /\ searchResults' = [searchResults EXCEPT ![r] = results]
                /\ IF Len(results) = 0
                   THEN /\ res' = [res EXCEPT ![r] =
                                      End(Write(@, DoneEvent(StreamNoContextAnswer)))]
                        /\ rpc' = [rpc EXCEPT ![r] = "done"]
                        /\ Found(r, 0)
                        /\ UNCHANGED messages
                   ELSE /\ messages' = [messages EXCEPT ![r] =
                                          [system |-> systemPrompt("stream", results),
                                           user |-> query[r].chars]]
                        /\ FoundAndCall(r, Len(results))
                        /\ rpc' = [rpc EXCEPT ![r] = "generating"]
                        /\ UNCHANGED res
       \/ /\ StreamCatch(r, "VectorIndexError")
          /\ UNCHANGED <<searchResults, messages, calls>>
    /\ UNCHANGED <<ingestVars, envVars, collection, endpoint, query, queryEmbedding,
                   emitted, genFailure>>

\* groq.chat.completions.create({..., stream: true}) resolves to the iterable, or throws
StreamOpened(r) ==
    /\ endpoint[r] = "stream" /\ rpc[r] = "generating"
    /\ \/ /\ rpc' = [rpc EXCEPT ![r] = "streaming"]
          /\ UNCHANGED <<res, genFailure>>
       \/ /\ GenCanFail
          /\ StreamCatch(r, "GenerationError")
          /\ genFailure' = [genFailure EXCEPT ![r] = "open"]
    /\ UNCHANGED <<ingestVars, envVars, collection, endpoint, query, queryEmbedding, searchResults,
                   messages, calls, emitted>>

\* const content = chunk.choices[0]?.delta?.content || ''
DeltaContent(c) == IF c = Undefined THEN "" ELSE c

\* variant: every chunk is written, empty or not
Forwarded_always(content) == TRUE

\* if (content)
Forwarded(content) == content # ""

\* one turn of for await (const chunk of chatCompletion): the next chunk, the end of
\* the iteration (then {done: true} and res.end()), or an exception from the provider
StreamChunk(r) ==
    /\ endpoint[r] = "stream" /\ rpc[r] = "streaming"
    /\ \/ \E c \in GenDeltas(r) :
             /\ emitted' = [emitted EXCEPT ![r] = Append(@, c)]
             /\ res' = [res EXCEPT ![r] =
                           IF Forwarded(DeltaContent(c))
                           THEN Write(@, ContentEvent(DeltaContent(c))) ELSE @]
             /\ UNCHANGED <<rpc, genFailure>>
       \/ /\ GenStreamEnds(r)
          /\ res' = [res EXCEPT ![r] = End(Write(@, DoneEvent(Undefined)))]
          /\ rpc' = [rpc EXCEPT ![r] = "done"]
          /\ UNCHANGED <<emitted, genFailure>>
       \/ /\ GenCanFail
          /\ StreamCatch(r, "GenerationError")
          /\ genFailure' = [genFailure EXCEPT ![r] = "mid"]
          /\ UNCHANGED emitted
    /\ UNCHANGED <<ingestVars, envVars, collection, endpoint, query, queryEmbedding, searchResults,
                   messages, calls>>

NoPrior == [chat |-> NewResponse, stream |-> NewResponse, failed |-> FALSE]

\* every caller is connected and submits its query for the first time
CallersInit ==
    /\ closedAt = [r \in Reqs |-> -1]
    /\ attempts = [r \in Reqs |-> 1]
    /\ prior = [r \in Reqs |-> NoPrior]

\* every uploaded file is in uploads/, just written
DiskInit ==
    /\ onDisk = Docs
    /\ mtime = [d \in Docs |-> 0]
    /\ now = 0

\* ... and no text is waiting to be split on its own
EnvInit ==
    /\ CallersInit
    /\ DiskInit
    /\ pdfText = <<>>
    /\ splitOut = <<>>

ReqsInit(stage) ==
    /\ rpc = [r \in Reqs |-> stage]
    /\ res = [r \in Reqs |-> NewResponse]
    /\ queryEmbedding = [r \in Reqs |-> <<>>]
    /\ searchResults = [r \in Reqs |-> <<>>]
    /\ messages = [r \in Reqs |-> NoMessages]
    /\ calls = [r \in Reqs |-> NoCalls]
    /\ emitted = [r \in Reqs |-> <<>>]
    /\ genFailure = [r \in Reqs |-> "none"]

\* what one ingested document leaves in the collection
Indexed(chs, path) ==
    [exists |-> TRUE, size |-> Len(EmbedText(<<>>)),
     points |-> UpsertPoints(<<>>, PointsOf(embeddingModel(chs), chs, path))]

\* index contents a query can meet: no collection yet, a collection created by a job whose
\* upsert then failed, and collections holding one document of 1 and of 6 chunks
QueryIndexes ==
    {NoCollection,
     Indexed(<<>>, 1),
     Indexed(<<<<"a">>>>, 1),
     Indexed(<<<<"a">>, <<"b">>, <<"a">>, <<"b">>, <<"a">>, <<"b">>>>, 1)}

\* no job delivery is being processed
JobsIdle ==
    /\ files = [d \in Docs |-> <<>>]
    /\ jobData = [j \in Jobs |-> 1]
    /\ pc = [j \in Jobs |-> "idle"]
    /\ chunks = [j \in Jobs |-> <<>>]
    /\ documentEmbeddings = [j \in Jobs |-> <<>>]
    /\ outcome = [j \in Jobs |-> Pending]
    /\ createdCount = 0
    /\ upsertCalls = [j \in Jobs |-> 0]
    /\ failedAt = [j \in Jobs |-> "none"]
    /\ lookup = [j \in Jobs |-> "none"]
    /\ written = {}

QueryStart(kinds, bodies) ==
    /\ stub \in kinds
    /\ JobsIdle
    /\ collection \in QueryIndexes
    /\ EnvInit
    /\ ReqsInit("start")
    /\ endpoint \in [Reqs -> {"chat", "stream"}]
    \* requests are interchangeable: those to /chat are numbered first
    /\ \A r1, r2 \in Reqs : (r1 < r2 /\ endpoint[r1] = "stream") => endpoint[r2] = "stream"
    /\ query \in [Reqs -> bodies]

QueryInit == QueryStart({"none"}, Bodies)

QueryNext ==
    \E r \in Reqs :
        \/ ChatValidate(r)
        \/ ChatEmbedded(r)
        \/ ChatSearched(r)
        \/ ChatCompleted(r)
        \/ StreamValidate(r)
        \/ StreamEmbedded(r)
        \/ StreamSearched(r)
        \/ StreamOpened(r)
        \/ StreamChunk(r)

SpecQuery == QueryInit /\ [][QueryNext]_vars

\* ------------------------------------------------------------------ the splitter alone
\* splitText applied to every text of Texts; nothing else runs
ChunkerInit ==
    /\ pdfText \in Texts
    /\ splitOut = NotSplit
    /\ stub = "none"
    /\ CallersInit
    /\ DiskInit
    /\ JobsIdle
    /\ collection = NoCollection
    /\ ReqsInit("idle")
    /\ endpoint = [r \in Reqs |-> "chat"]
    /\ query = [r \in Reqs |-> JsUndefined]

ChunkerNext == SplitTextOnly /\ UNCHANGED <<ingestVars, collection, queryVars>>

SpecChunker == ChunkerInit /\ [][ChunkerNext]_vars

\* ------------------------------------------------------------------ the caller disconnects
\* The caller closes the connection while its request is being served. Neither handler
\* registers a listener for it (no req.on('close'), no AbortController handed to groq), and
\* res.write on a closed connection returns false without throwing: the handler's state is
\* untouched and its loop goes on. res.events keeps recording what the handler writes.
Disconnect(r) ==
    /\ rpc[r] \notin {"idle", "done"}
    /\ closedAt[r] = -1
    /\ closedAt' = [closedAt EXCEPT ![r] = Len(emitted[r])]
    /\ UNCHANGED <<ingestVars, collection, queryVars, stub, attempts, prior,
                   chunkerVars, diskVars>>

CancelNext ==
    \/ QueryNext
    \/ \E r \in Reqs : Disconnect(r)

SpecCancel == QueryInit /\ [][CancelNext]_vars

\* ------------------------------------------------------------------ the caller asks again
\* the request went through retrieval and generation without a provider failure
Succeeded(r) == rpc[r] = "done" /\ calls[r].found >= 0 /\ genFailure[r] = "none"

\* the request ended because embeddingModel threw
EmbeddingFailed(r) == rpc[r] = "done" /\ calls[r].embed = 1 /\ calls[r].search = 0

\* variant: the chunks pulled from the provider are kept in an array declared outside
\* the handler, which the next invocation finds as the last one left it
FreshLocals_sharedChunks(r) ==
    /\ rpc' = [rpc EXCEPT ![r] = "start"]
    /\ res' = [res EXCEPT ![r] = NewResponse]
    /\ queryEmbedding' = [queryEmbedding EXCEPT ![r] = <<>>]
    /\ searchResults' = [searchResults EXCEPT ![r] = <<>>]
    /\ messages' = [messages EXCEPT ![r] = NoMessages]
    /\ calls' = [calls EXCEPT ![r] = NoCalls]
    /\ UNCHANGED emitted
    /\ genFailure' = [genFailure EXCEPT ![r] = "none"]

\* everything a handler works with is declared with const inside the handler (req, res and
\* the clients aside): an invocation starts with none of it set
FreshLocals(r) ==
    /\ rpc' = [rpc EXCEPT ![r] = "start"]
    /\ res' = [res EXCEPT ![r] = NewResponse]
    /\ queryEmbedding' = [queryEmbedding EXCEPT ![r] = <<>>]
    /\ searchResults' = [searchResults EXCEPT ![r] = <<>>]
    /\ messages' = [messages EXCEPT ![r] = NoMessages]
    /\ calls' = [calls EXCEPT ![r] = NoCalls]
    /\ emitted' = [emitted EXCEPT ![r] = <<>>]
    /\ genFailure' = [genFailure EXCEPT ![r] = "none"]

\* The caller, having received the response, submits the same query again, to endpoint
\* e. The handler is invoked afresh: its locals (lines 207-308, 313-381) start anew, and
\* nothing else in the server refers to the earlier request.
Resubmit(r, e) ==
    /\ rpc[r] = "done"
    /\ attempts[r] < MaxAttempts
    /\ attempts' = [attempts EXCEPT ![r] = @ + 1]
    /\ prior' = [prior EXCEPT ![r] =
                    [chat |-> IF endpoint[r] = "chat" /\ Succeeded(r) /\ @.chat = NewResponse
                              THEN res[r] ELSE @.chat,
                     stream |-> IF endpoint[r] = "stream" /\ Succeeded(r)
                                      /\ @.stream = NewResponse
                                THEN res[r] ELSE @.stream,
                     failed |-> @.failed \/ EmbeddingFailed(r)]]
    /\ endpoint' = [endpoint EXCEPT ![r] = e]
    /\ FreshLocals(r)
    /\ UNCHANGED <<ingestVars, collection, query, stub, chunkerVars, diskVars, closedAt>>

\* queries against a deterministic Generation Provider stub, each asked up to MaxAttempts
\* times of either endpoint
EquivInit == QueryStart(Stubs, Bodies)

EquivNext ==
    \/ QueryNext
    \/ \E r \in Reqs, e \in {"chat", "stream"} : Resubmit(r, e)

SpecEquiv == EquivInit /\ [][EquivNext]_vars

\* a body without a query and a body with a question, each asked up to MaxAttempts times
\* of the same endpoint, against the stub
RepeatBodies == {JsUndefined, JsString(<<"a">>)}
RepeatInit == QueryStart({"fixed"}, RepeatBodies)

RepeatNext ==
    \/ QueryNext
    \/ \E r \in Reqs : Resubmit(r, endpoint[r])

SpecRepeat == RepeatInit /\ [][RepeatNext]_vars

\* ------------------------------------------------------------------ ingestion claims
\* the points one complete ingestion of the file at path d leaves in an empty collection,
\* written out from the file alone
ExpectedPoints(d) ==
    [id \in 1..Len(files[d]) |->
        [id |-> id, vector |-> EmbedText(files[d][id]),
         payload |-> [text |-> files[d][id], chunk_index |-> id - 1, source |-> d]]]

\* C1: when jobs race through the ensure-collection step against an absent collection,
\* the collection is created exactly once and no job that found it absent ends with a
\* propagated "already exists" error.
C1_EnsureCollectionRace ==
    /\ createdCount <= 1
    /\ \A j \in Jobs :
          lookup[j] = "absent" => outcome[j].error # "CollectionAlreadyExists"

\* C2: once two jobs for different documents have both completed, the collection holds
\* a point for every chunk of both documents.
C2_BothDocumentsPresent ==
    \A j1, j2 \in Jobs :
        (jobData[j1] # jobData[j2] /\ pc[j1] = "completed" /\ pc[j2] = "completed") =>
            \A j \in {j1, j2} : \A k \in 1..Len(chunks[j]) :
                \E id \in DOMAIN collection.points :
                    /\ collection.points[id].payload.source = jobData[j]
                    /\ collection.points[id].payload.chunk_index = k - 1
                    /\ collection.points[id].payload.text = chunks[j][k]

\* C3: no two distinct (document, chunk index) pairs are ever written under the same
\* point id.
C3_PointIdIdentifiesOneChunk ==
    \A w1, w2 \in written : w1[1] = w2[1] => w1 = w2

\* C4: a job that failed at file read, extraction, chunking or embedding has issued no
\* upsert; a job issues at most one upsert, only after its chunks and all their
\* embeddings exist, and that one upsert carries every chunk of the job.
C4_UpsertOnlyAfterEmbedding ==
    \A j \in Jobs :
        /\ failedAt[j] \in {"readFile", "pdf", "splitText", "embed"} => upsertCalls[j] = 0
        /\ upsertCalls[j] <= 1
        /\ upsertCalls[j] = 1 =>
              /\ chunks[j] = files[jobData[j]]
              /\ Len(chunks[j]) > 0
              /\ Len(documentEmbeddings[j]) = Len(chunks[j])
              /\ \A k \in 1..Len(chunks[j]) : documentEmbeddings[j][k] = EmbedText(chunks[j][k])
        /\ pc[j] \in {"return", "completed"} =>
              \A k \in 1..Len(files[jobData[j]]) : <<k, jobData[j], k - 1>> \in written

\* a job failed at the embedding call while another job went on to upsert its batch
C4_Witness ==
    \E j1, j2 \in Jobs :
        /\ failedAt[j1] = "embed" /\ Len(chunks[j1]) > 0
        /\ upsertCalls[j2] = 1 /\ pc[j2] = "completed" /\ Len(chunks[j2]) = MaxChunks

\* C5: as long as every upsert so far came from deliveries of one and the same job
\* (same path, same text), the collection holds exactly the points of one delivery.
C5_RedeliveryIdempotent ==
    \A d \in Docs :
        (written # {} /\ \A w \in written : w[2] = d) => collection.points = ExpectedPoints(d)

\* the same job was delivered twice and both deliveries completed
C5_Witness ==
    \E j1, j2 \in Jobs :
        /\ j1 # j2 /\ jobData[j1] = jobData[j2]
        /\ pc[j1] = "completed" /\ pc[j2] = "completed"
        /\ Len(chunks[j1]) = MaxChunks

\* C6: every job that reported success has had its one upsert applied, and all of its
\* points are in the collection for any search that starts afterwards.
C6_CompletionImpliesSearchable ==
    \A j \in Jobs :
        outcome[j].status = "completed" =>
            /\ upsertCalls[j] = 1
            /\ \A k \in 1..Len(chunks[j]) :
                  /\ k \in DOMAIN collection.points
                  /\ collection.points[k].payload.source = jobData[j]
                  /\ collection.points[k].payload.text = chunks[j][k]
                  /\ collection.points[k].vector = documentEmbeddings[j][k]

\* ------------------------------------------------------------------ query claims
\* the {content} events for the non-empty fragments of a sequence of delta contents,
\* in order
RECURSIVE ContentEventsOf(_)
ContentEventsOf(deltas) ==
    IF deltas = <<>> THEN <<>>
    ELSE IF Head(deltas) \in {Undefined, ""}
         THEN ContentEventsOf(Tail(deltas))
         ELSE <<[type |-> "content", text |-> Head(deltas)]>> \o ContentEventsOf(Tail(deltas))

EventTypes(rs) == {rs.events[k].type : k \in 1..Len(rs.events)}

\* C7: in both endpoints a search with zero results ends the request with the canned
\* no-context answer and an empty source list, and the Generation Provider is not called.
C7_ZeroResultsCannedAnswer ==
    \A r \in Reqs :
        (rpc[r] = "done" /\ calls[r].found = 0) =>
            /\ calls[r].gen = 0
            /\ res[r].statusCode = 200
            /\ res[r].body.kind = "answer"
            /\ res[r].body.answer = NoContextAnswer
            /\ res[r].body.sources = <<>>

\* a query that is missing, empty or made of whitespace only
Blank(v) ==
    \/ v.type = "undefined"
    \/ v.type = "string" /\ \A k \in 1..Len(v.chars) : v.chars[k] = " "

\* C8: in both endpoints a missing, empty or whitespace-only query is answered with
\* status 400 and nothing else: no provider is called, no stream header is set and no
\* event is written.
C8_BlankQueryRejected ==
    \A r \in Reqs :
        (Blank(query[r]) /\ rpc[r] # "start") =>
            /\ rpc[r] = "done"
            /\ res[r].statusCode = 400
            /\ res[r].body.kind = "error" /\ res[r].body.error = "Query is required"
            /\ calls[r].embed = 0 /\ calls[r].search = 0 /\ calls[r].gen = 0
            /\ res[r].contentType # "text/event-stream"
            /\ res[r].events = <<>>

\* a whitespace-only query was rejected by the streaming endpoint
C8_Witness ==
    \E r \in Reqs :
        /\ endpoint[r] = "stream" /\ rpc[r] = "done"
        /\ query[r].type = "string" /\ Len(query[r].chars) = MaxQueryLen
        /\ Blank(query[r])

\* C9: while a streaming query forwards, the events written are the non-empty fragments
\* the provider has yielded so far, in order; when the query ends without any provider
\* having failed they are followed by exactly one {done: true} event and the response
\* is ended; an ended response is never written to again.
C9_StreamForwardsInOrder ==
    /\ [](\A r \in Reqs :
            /\ (endpoint[r] = "stream" /\ rpc[r] = "streaming") =>
                  /\ res[r].events = ContentEventsOf(emitted[r])
                  /\ ~res[r].ended
            /\ (endpoint[r] = "stream" /\ rpc[r] = "done"
                  /\ calls[r].found >= 0 /\ genFailure[r] = "none") =>
                  /\ Len(res[r].events) = Len(ContentEventsOf(emitted[r])) + 1
                  /\ SubSeq(res[r].events, 1, Len(res[r].events) - 1) =
                        ContentEventsOf(emitted[r])
                  /\ res[r].events[Len(res[r].events)].type = "done"
                  /\ calls[r].gen = 1 =>
                        res[r].events[Len(res[r].events)] = [type |-> "done", text |-> Undefined]
                  /\ res[r].ended)
    /\ [][\A r \in Reqs : res[r].ended => res'[r] = res[r]]_vars

\* a stream completed after the provider yielded an empty and a non-empty fragment
C9_Witness ==
    \E r \in Reqs :
        /\ endpoint[r] = "stream" /\ rpc[r] = "done" /\ genFailure[r] = "none"
        /\ Len(emitted[r]) = MaxFrags
        /\ \E k \in 1..Len(emitted[r]) : emitted[r][k] \in {Undefined, ""}
        /\ \E k \in 1..Len(emitted[r]) : emitted[r][k] \notin {Undefined, ""}
        /\ res[r].ended

\* C10: a Generation Provider failure in streaming mode, at the opening call or after
\* any number of fragments, leaves the fragments already forwarded in place, followed by
\* exactly one {error} event on the event-stream response, which is then ended; no
\* {done: true} event is written.
C10_StreamFailureInBand ==
    \A r \in Reqs :
        (endpoint[r] = "stream" /\ genFailure[r] # "none") =>
            /\ rpc[r] = "done"
            /\ res[r].contentType = "text/event-stream"
            /\ res[r].statusCode = 200
            /\ res[r].events =
                  ContentEventsOf(emitted[r]) \o <<[type |-> "error", text |-> "GenerationError"]>>
            /\ "done" \notin EventTypes(res[r])
            /\ res[r].ended

\* the provider failed after a fragment had been forwarded
C10_Witness ==
    \E r \in Reqs :
        /\ endpoint[r] = "stream" /\ genFailure[r] = "mid"
        /\ Len(res[r].events) >= 2
        /\ res[r].events[1].type = "content"

\* C11: once the caller of a streaming query has disconnected, the handler stops
\* promptly: it pulls no further chunk from the provider's stream (one pull may already
\* be in flight when the connection closes) and writes nothing more to the response.
C11_StopsAfterDisconnect ==
    \A r \in Reqs :
        (endpoint[r] = "stream" /\ closedAt[r] >= 0)
            => Len(emitted[r]) <= closedAt[r] + 1

\* the texts of the {content} events of a stream, in order
ContentTexts(events) ==
    LET idx == {k \in 1..Len(events) : events[k].type = "content"}
        nth[n \in 0..Len(events)] ==
            IF n = 0 THEN <<>>
            ELSE IF n \in idx THEN Append(nth[n - 1], events[n].text) ELSE nth[n - 1]
    IN nth[Len(events)]

\* C12: with a deterministic Generation Provider stub, the concatenation of the content
\* fragments a streaming query emits equals the answer the batch endpoint returns for
\* the same query over the same index.
C12_StreamEqualsBatch ==
    \A r \in Reqs :
        (stub # "none" /\ Succeeded(r)) =>
            /\ (endpoint[r] = "stream" /\ prior[r].chat # NewResponse) =>
                  Concat(ContentTexts(res[r].events)) = prior[r].chat.body.answer
            /\ (endpoint[r] = "chat" /\ prior[r].stream # NewResponse) =>
                  Concat(ContentTexts(prior[r].stream.events)) = res[r].body.answer

\* ceil(a / b) for positive b
CeilDiv(a, b) == (a + b - 1) \div b

\* C13: with S = 1000 and O = 100 the chunker yields ceil((len - O) / (S - O)) chunks for
\* a text of length len > S, one chunk for a shorter non-empty text and none for the
\* empty text; every chunk but the last has length S, and consecutive chunks share
\* exactly O characters.
C13_ChunkCountAndOverlap ==
    splitOut # NotSplit =>
        LET len == TextLen(pdfText)
            n == Len(splitOut)
        IN /\ len = 0 => n = 0
           /\ (0 < len /\ len <= ChunkSize) => n = 1
           /\ len > ChunkSize => n = CeilDiv(len - ChunkOverlap, ChunkSize - ChunkOverlap)
           /\ \A k \in 1..(n - 1) :
                 /\ splitOut[k].len = ChunkSize
                 /\ splitOut[k].start + splitOut[k].len - splitOut[k + 1].start
                        = ChunkOverlap

\* C14: after a document has been ingested successfully, a query whose text is the text
\* of one of its chunks gets that chunk among its (at most five) search results, with
\* the highest score of all the results.
C14_RoundTrip ==
    \A r \in Reqs, j \in Jobs :
        (calls[r].found >= 0 /\ outcome[j].status = "completed"
            /\ query[r].type = "string") =>
            \A k \in 1..Len(chunks[j]) :
                chunks[j][k] = query[r].chars =>
                    \E i \in 1..Len(searchResults[r]) :
                        /\ searchResults[r][i].payload.source = jobData[j]
                        /\ searchResults[r][i].payload.chunk_index = k - 1
                        /\ searchResults[r][i].payload.text = chunks[j][k]
                        /\ \A i2 \in 1..Len(searchResults[r]) :
                              ~ScoreLess(searchResults[r][i].score,
                                         searchResults[r][i2].score)

\* the order of the processor's statements
StageRank(stage) ==
    CASE stage = "parse" -> 1
      [] stage = "readFile" -> 2
      [] stage = "pdf" -> 3
      [] stage = "splitText" -> 4
      [] stage = "embed" -> 5
      [] stage = "getCollection" -> 6
      [] stage = "createCollection" -> 7
      [] stage = "upsert" -> 8
      [] stage = "return" -> 9
      [] stage \in {"completed", "failed"} -> 10
      [] OTHER -> 0

\* C15 as stated: an exception at any stage, the collection lookup included, ends the
\* invocation as a failure and never as a success report.
C15_LookupExceptionFailsJob ==
    \A j \in Jobs :
        lookup[j] \in {"absent", "error"} => outcome[j].status # "completed"

\* C15, amended: an exception of the payload parse, the file read, the extraction, the
\* embedding, the collection creation or the upsert ends the delivery as a failure
\* carrying that error, for good and never as a success report; an exception of the
\* collection lookup is caught and only leads to the creation attempt; the processor
\* only moves forward through its stages, so each stage runs at most once per delivery.
C15_ExceptionsFailOnceOnly ==
    /\ [](\A j \in Jobs :
            /\ failedAt[j] # "none" =>
                  /\ pc[j] = "failed"
                  /\ outcome[j].status = "failed" /\ outcome[j].error # "none"
                  /\ failedAt[j] \in {"parse", "readFile", "pdf", "embed",
                                      "createCollection", "upsert"}
            /\ outcome[j].status = "completed" => (failedAt[j] = "none" /\ pc[j] = "completed")
            /\ lookup[j] \in {"absent", "error"} =>
                  pc[j] \in {"createCollection", "upsert", "return", "completed", "failed"}
            /\ upsertCalls[j] <= 1)
    /\ [][\A j \in Jobs :
            /\ pc'[j] # pc[j] => StageRank(pc'[j]) > StageRank(pc[j])
            /\ outcome[j].status # "active" => (outcome'[j] = outcome[j] /\ pc'[j] = pc[j])
         ]_vars

\* the lookup threw and was caught, the collection was created, then the upsert threw
C15_Witness ==
    \E j \in Jobs :
        /\ lookup[j] = "absent" /\ failedAt[j] = "upsert"
        /\ outcome[j].status = "failed"

\* C16: within one query the context block lists the retrieved chunks in the order the
\* search returned them, which is by descending score, labelled [Chunk 1] .. [Chunk k]
\* with k <= 5; in batch mode the i-th entry of the source list has chunk_index = i and
\* carries the score, the source and the text preview of the search result that the
\* context labels [Chunk i].
C16_ContextAndSourcesAligned ==
    \A r \in Reqs :
        LET results == searchResults[r]
            ctx == messages[r].system.context
            srcs == res[r].body.sources
        IN /\ calls[r].gen = 1 =>
                 /\ Len(results) \in 1..5
                 /\ Len(ctx) = Len(results)
                 /\ \A k \in 1..Len(ctx) :
                       ctx[k].label = k /\ ctx[k].text = results[k].payload.text
                 /\ \A k \in 1..(Len(results) - 1) :
                       ~ScoreLess(results[k].score, results[k + 1].score)
           /\ (endpoint[r] = "chat" /\ rpc[r] = "done" /\ calls[r].gen = 1
                  /\ res[r].body.kind = "answer") =>
                 /\ Len(srcs) = Len(ctx)
                 /\ \A i \in 1..Len(srcs) :
                       /\ srcs[i].chunk_index = ctx[i].label
                       /\ srcs[i].text = Take(ctx[i].text, 200) \o <<".", ".", ".">>
                       /\ srcs[i].score = results[i].score
                       /\ srcs[i].source = results[i].payload.source

\* a batch answer citing five chunks, the first more similar to the query than the last,
\* out of six stored ones
C16_Witness ==
    \E r \in Reqs :
        /\ endpoint[r] = "chat" /\ rpc[r] = "done" /\ res[r].body.kind = "answer"
        /\ Len(collection.points) = 6
        /\ Len(res[r].body.sources) = 5
        /\ ScoreLess(res[r].body.sources[5].score, res[r].body.sources[1].score)
        /\ messages[r].system.context[1].text # messages[r].system.context[5].text

\* what belongs to request r
Locals(r) ==
    <<endpoint[r], query[r], rpc[r], res[r], queryEmbedding[r], searchResults[r],
      messages[r], calls[r], emitted[r], genFailure[r]>>

C18_FilePresentUntilRead ==
    \A j \in Jobs :
        pc[j] \in {"queued", "parse", "readFile"} => jobData[j] \in onDisk

\* C19: every stored point is consistent in itself, whatever the jobs and their
\* interleaving: its vector is the embedding of its payload text, its chunk_index is its
\* id minus one, and its text is the chunk at that index of the file its source names.
C19_PointsConsistent ==
    \A id \in DOMAIN collection.points :
        LET p == collection.points[id]
        IN /\ p.id = id
           /\ p.vector = EmbedText(p.payload.text)
           /\ p.payload.chunk_index = id - 1
           /\ p.payload.source \in Docs
           /\ p.payload.chunk_index + 1 \in DOMAIN files[p.payload.source]
           /\ p.payload.text = files[p.payload.source][p.payload.chunk_index + 1]

\* points of two documents side by side: one job's second chunk next to the chunk with
\* which another job overwrote its first
C19_Witness ==
    /\ Cardinality(DOMAIN collection.points) >= 2
    /\ \E id1, id2 \in DOMAIN collection.points :
          /\ id1 < id2
          /\ collection.points[id1].payload.source # collection.points[id2].payload.source
          /\ \E j \in Jobs : jobData[j] = collection.points[id2].payload.source
                               /\ outcome[j].status = "completed"

\* ------------------------------------------------------------------ specifications
JobsInit(stage) ==
    /\ files \in [Docs -> UNION {ChunkLists(d) : d \in Docs}]
    /\ \A d \in Docs : files[d] \in ChunkLists(d)
    \* deliveries are interchangeable: they are numbered in the order of their paths
    /\ jobData \in [Jobs -> Docs]
    /\ \A j1, j2 \in Jobs : j1 < j2 => jobData[j1] <= jobData[j2]
    /\ pc = [j \in Jobs |-> stage]
    /\ chunks = [j \in Jobs |-> <<>>]
    /\ documentEmbeddings = [j \in Jobs |-> <<>>]
    /\ outcome = [j \in Jobs |-> Pending]
    /\ createdCount = 0
    /\ upsertCalls = [j \in Jobs |-> 0]
    /\ failedAt = [j \in Jobs |-> "none"]
    /\ lookup = [j \in Jobs |-> "none"]
    /\ written = {}

IngestInit ==
    /\ JobsInit("parse")
    /\ collection = NoCollection
    /\ stub = "none"
    /\ EnvInit
    /\ ReqsInit("idle")
    /\ endpoint = [r \in Reqs |-> "chat"]
    /\ query = [r \in Reqs |-> JsUndefined]

IngestNext ==
    \E j \in Jobs :
        \/ JsonParse(j)
        \/ ReadFile(j)
        \/ ParsePdf(j)
        \/ SplitText(j)
        \/ Embed(j)
        \/ GetCollection(j)
        \/ CreateCollection(j)
        \/ Upsert(j)
        \/ Return(j)

SpecIngest == IngestInit /\ [][IngestNext]_vars

\* ------------------------------------------------------------------ uploads and cleanup
\* the clock is kept in half hours
TickMs == 30 * 60 * 1000
\* const oneHour = 60 * 60 * 1000
OneHour == 60 * 60 * 1000
\* setInterval(cleanupOldFiles, 60 * 60 * 1000)
SweepEvery == 60 * 60 * 1000

\* POST /upload/pdf: multer has written the file under a fresh name, then queue.add
\* enqueues the job carrying its path (the deliveries of that job, here)
UploadPdf(d) ==
    /\ d \notin onDisk
    /\ \A j \in Jobs : jobData[j] = d => pc[j] = "unsent"
    /\ onDisk' = onDisk \cup {d}
    /\ mtime' = [mtime EXCEPT ![d] = now]
    /\ pc' = [j \in Jobs |-> IF jobData[j] = d THEN "queued" ELSE pc[j]]
    /\ UNCHANGED <<files, jobData, chunks, documentEmbeddings, outcome, createdCount,
                   upsertCalls, failedAt, lookup, written, collection, queryVars,
                   stub, callerVars, chunkerVars, now>>

\* the worker takes a delivery off the queue and calls the processor
Dequeue(j) ==
    /\ pc[j] = "queued"
    /\ Goto(j, "parse")
    /\ UNCHANGED <<files, jobData, chunks, documentEmbeddings, collection,
                   createdCount, upsertCalls, lookup, written, queryVars, envVars>>

\* const fileAge = now - stats.mtimeMs; if (fileAge > oneHour) fs.unlinkSync(filePath)
OldFiles(t) == {d \in onDisk : (t - mtime[d]) * TickMs > OneHour}

\* half an hour passes; when that completes an interval of the timer, cleanupOldFiles
\* runs (it has no await: the sweep is one step)
Tick ==
    /\ now < MaxClock
    /\ now' = now + 1
    /\ onDisk' = IF ((now + 1) * TickMs) % SweepEvery = 0
                  THEN onDisk \ OldFiles(now + 1) ELSE onDisk
    /\ UNCHANGED <<ingestVars, collection, queryVars, stub, callerVars, chunkerVars, mtime>>

\* DELETE /cleanup/files: every file of uploads/ is unlinked
CleanupFiles ==
    /\ onDisk # {}
    /\ onDisk' = {}
    /\ UNCHANGED <<ingestVars, collection, queryVars, stub, callerVars, chunkerVars,
                   mtime, now>>

\* nothing is uploaded yet; the jobs are those the uploads will enqueue
RetentionInit ==
    /\ files = [d \in Docs |-> <<ChunkText(d, 1)>>]
    /\ jobData \in [Jobs -> Docs]
    /\ \A j1, j2 \in Jobs : j1 < j2 => jobData[j1] <= jobData[j2]
    /\ pc = [j \in Jobs |-> "unsent"]
    /\ chunks = [j \in Jobs |-> <<>>]
    /\ documentEmbeddings = [j \in Jobs |-> <<>>]
    /\ outcome = [j \in Jobs |-> Pending]
    /\ createdCount = 0
    /\ upsertCalls = [j \in Jobs |-> 0]
    /\ failedAt = [j \in Jobs |-> "none"]
    /\ lookup = [j \in Jobs |-> "none"]
    /\ written = {}
    /\ collection = NoCollection
    /\ stub = "none"
    /\ CallersInit
    /\ pdfText = <<>>
    /\ splitOut = <<>>
    /\ onDisk = {}
    /\ mtime = [d \in Docs |-> 0]
    /\ now = 0
    /\ ReqsInit("idle")
    /\ endpoint = [r \in Reqs |-> "chat"]
    /\ query = [r \in Reqs |-> JsUndefined]

\* uploads, the worker up to its readFile, the timer and the manual cleanup
RetentionNext ==
    \/ \E d \in Docs : UploadPdf(d)
    \/ \E j \in Jobs : Dequeue(j) \/ JsonParse(j) \/ ReadFile(j)
    \/ Tick
    \/ CleanupFiles

SpecRetention == RetentionInit /\ [][RetentionNext]_vars

\* A request arrives once every delivery has ended: what it finds in the index is what
\* ingestion has left there.
Arrive(r) ==
    /\ rpc[r] = "idle"
    /\ \A j \in Jobs : pc[j] \in {"completed", "failed"}
    /\ rpc' = [rpc EXCEPT ![r] = "start"]
    /\ \E e \in {"chat", "stream"} : endpoint' = [endpoint EXCEPT ![r] = e]
    /\ \E q \in Bodies : query' = [query EXCEPT ![r] = q]
    /\ UNCHANGED <<ingestVars, collection, envVars, res, queryEmbedding, searchResults,
                   messages, calls, emitted, genFailure>>

\* ingestion followed by queries
RoundTripNext ==
    \/ IngestNext
    \/ \E r \in Reqs : Arrive(r)
    \/ QueryNext

SpecRoundTrip == IngestInit /\ [][RoundTripNext]_vars

====
